---------------------------- MODULE Spec2Model ----------------------------
(***************************************************************************)
(* Model of the Ortery turntable driver (ortery_driver.py) and of the      *)
(* service callbacks of TurntableNode (turntable_node.py).                 *)
(*                                                                         *)
(* Text is modelled as a sequence of one-character strings, so that the    *)
(* driver's string equality tests and regular expressions are computed     *)
(* character by character.  The process rwo runs is the environment: a     *)
(* driver function that has called rwo is blocked until the process ends;  *)
(* rwo then decodes its standard output and returns the text, or raises.   *)
(* Every driver function and callback is an operator of its arguments and  *)
(* of the sequence `outs' of what rwo has returned or raised to it so far; *)
(* it yields the commands it has passed to rwo and its outcome (pending in *)
(* rwo, a returned value, or a raised exception).                          *)
(***************************************************************************)
EXTENDS Integers, Sequences, FiniteSets, TLC

VARIABLES pc, handler, args, returned, sent, result

vars == <<pc, handler, args, returned, sent, result>>

(***************************************************************************)
(* Bounds of the model.                                                    *)
(***************************************************************************)
\* an output text is the concatenation of at most MaxChunks vocabulary chunks
MaxChunks == 3
\* rwo returns the empty text at most MaxEmpty times in one call
MaxEmpty == 3
\* property lists of length 0..MaxProps are passed to set_properties_data
MaxProps == 21

(***************************************************************************)
(* Characters and Python values.                                           *)
(***************************************************************************)
DigitChars == <<"0","1","2","3","4","5","6","7","8","9">>

Digit == {DigitChars[i] : i \in 1..10}

Lower == {"a","b","c","d","e","f","g","h","i","j","k","l","m",
          "n","o","p","q","r","s","t","u","v","w","x","y","z"}

Upper == {"A","B","C","D","E","F","G","H","I","J","K","L","M",
          "N","O","P","Q","R","S","T","U","V","W","X","Y","Z"}

\* the character class [0-9]
IsDigit(c) == c \in Digit

\* the character class [A-Za-z0-9 ]
IsNameChar(c) == c \in Upper \cup Lower \cup Digit \cup {" "}

DigitValue(c) == (CHOOSE i \in 1..10 : DigitChars[i] = c) - 1

\* sys.get_int_max_str_digits(): int(s) of a text of more digits than this
\* raises ValueError (the default of the interpreter, Python 3.11 and later)
int_max_str_digits == 4300

\* whether int(s) raises for the text s of decimal digits: every digit counts,
\* leading zeros included
int_raises(s) == Len(s) > int_max_str_digits

\* the ValueError int(s) raises then
int_error(s) ==
  [kind |-> "raise", exc |-> "ValueError",
   val |-> <<"Exceeds the limit (" \o ToString(int_max_str_digits)
             \o " digits) for integer string conversion: value has "
             \o ToString(Len(s))
             \o " digits; use sys.set_int_max_str_digits() to increase the limit">>]

\* the value of int(s) for a text s of decimal digits for which it does not raise
RECURSIVE int(_)
int(s) ==
  IF Len(s) = 0 THEN 0
  ELSE 10 * int(SubSeq(s, 1, Len(s) - 1)) + DigitValue(s[Len(s)])

\* Python values whose type the driver inspects: an int, None, a list
PyInt(n) == [type |-> "int", v |-> n]

PyNone == [type |-> "NoneType", v |-> 0]

PyList(l) == [type |-> "list", v |-> l]

PyTuple(l) == [type |-> "tuple", v |-> l]

\* the outcome of a call: still blocked in rwo, a value, or an exception
Pending == [kind |-> "pending", exc |-> "", val |-> <<>>]

Return(v) == [kind |-> "return", exc |-> "", val |-> v]

Raise(e, a) == [kind |-> "raise", exc |-> e, val |-> a]

\* what a call has done so far: the commands passed to rwo and its outcome
Called(cmds, res) == [cmds |-> cmds, res |-> res]

\* the command line f'OTADCommand.exe <operation> <arguments>', kept as its parts
Command_line(operation, argv) ==
  [exe |-> "OTADCommand.exe", operation |-> operation, argv |-> argv]

(***************************************************************************)
(* The literal error texts the driver compares rwo's output with.          *)
(***************************************************************************)
\* ortery_driver.py line 81: e = 'get_device_info :  command exec fail ( error code : 0x0040001)\r\n'
e_get_device_info_01 ==
  <<"g","e","t","_","d","e","v","i","c","e","_","i","n","f","o"," ",":"," "," ","c","o","m","m","a","n","d"," ","e","x","e","c"," ","f","a","i","l"," ","("," ","e","r","r","o","r"," ","c","o","d","e"," ",":"," ","0","x","0","0","4","0","0","0","1",")","\r","\n">>

\* ortery_driver.py line 125: e = 'get_command_desc :  command exec fail ( error code : 0x0040001)\r\n'
e_get_command_desc_01 ==
  <<"g","e","t","_","c","o","m","m","a","n","d","_","d","e","s","c"," ",":"," "," ","c","o","m","m","a","n","d"," ","e","x","e","c"," ","f","a","i","l"," ","("," ","e","r","r","o","r"," ","c","o","d","e"," ",":"," ","0","x","0","0","4","0","0","0","1",")","\r","\n">>

\* ortery_driver.py line 155: e = 'get_property_desc :  command exec fail ( error code : 0x0040001)\r\n'
e_get_property_desc_01 ==
  <<"g","e","t","_","p","r","o","p","e","r","t","y","_","d","e","s","c"," ",":"," "," ","c","o","m","m","a","n","d"," ","e","x","e","c"," ","f","a","i","l"," ","("," ","e","r","r","o","r"," ","c","o","d","e"," ",":"," ","0","x","0","0","4","0","0","0","1",")","\r","\n">>

\* ortery_driver.py line 214: e = 'get_property_data :  command exec fail ( error code : 0x0040001)\r\n'
e_get_property_data_01 ==
  <<"g","e","t","_","p","r","o","p","e","r","t","y","_","d","a","t","a"," ",":"," "," ","c","o","m","m","a","n","d"," ","e","x","e","c"," ","f","a","i","l"," ","("," ","e","r","r","o","r"," ","c","o","d","e"," ",":"," ","0","x","0","0","4","0","0","0","1",")","\r","\n">>

\* ortery_driver.py line 217: e = 'get_property_data :  command exec fail ( error code : 0x004000a)\r\n'
e_get_property_data_0a ==
  <<"g","e","t","_","p","r","o","p","e","r","t","y","_","d","a","t","a"," ",":"," "," ","c","o","m","m","a","n","d"," ","e","x","e","c"," ","f","a","i","l"," ","("," ","e","r","r","o","r"," ","c","o","d","e"," ",":"," ","0","x","0","0","4","0","0","0","a",")","\r","\n">>

\* ortery_driver.py line 220: e = 'get_property_data :  command exec fail ( error code : 0x0040005)\r\n'
e_get_property_data_05 ==
  <<"g","e","t","_","p","r","o","p","e","r","t","y","_","d","a","t","a"," ",":"," "," ","c","o","m","m","a","n","d"," ","e","x","e","c"," ","f","a","i","l"," ","("," ","e","r","r","o","r"," ","c","o","d","e"," ",":"," ","0","x","0","0","4","0","0","0","5",")","\r","\n">>

\* ortery_driver.py line 263: e = 'set_property_data :  command exec fail ( error code : 0x0040001)\r\n'
e_set_property_data_01 ==
  <<"s","e","t","_","p","r","o","p","e","r","t","y","_","d","a","t","a"," ",":"," "," ","c","o","m","m","a","n","d"," ","e","x","e","c"," ","f","a","i","l"," ","("," ","e","r","r","o","r"," ","c","o","d","e"," ",":"," ","0","x","0","0","4","0","0","0","1",")","\r","\n">>

\* ortery_driver.py line 266: e = 'set_property_data :  command exec fail ( error code : 0x004000a)\r\n'
e_set_property_data_0a ==
  <<"s","e","t","_","p","r","o","p","e","r","t","y","_","d","a","t","a"," ",":"," "," ","c","o","m","m","a","n","d"," ","e","x","e","c"," ","f","a","i","l"," ","("," ","e","r","r","o","r"," ","c","o","d","e"," ",":"," ","0","x","0","0","4","0","0","0","a",")","\r","\n">>

\* ortery_driver.py line 269: e = 'set_property_data :  command exec fail ( error code : 0x0040005)\r\n'
e_set_property_data_05 ==
  <<"s","e","t","_","p","r","o","p","e","r","t","y","_","d","a","t","a"," ",":"," "," ","c","o","m","m","a","n","d"," ","e","x","e","c"," ","f","a","i","l"," ","("," ","e","r","r","o","r"," ","c","o","d","e"," ",":"," ","0","x","0","0","4","0","0","0","5",")","\r","\n">>

\* ortery_driver.py line 299: e = 'set_properties_data :  command exec fail ( error code : 0x0040001)\r\n'
e_set_properties_data_01 ==
  <<"s","e","t","_","p","r","o","p","e","r","t","i","e","s","_","d","a","t","a"," ",":"," "," ","c","o","m","m","a","n","d"," ","e","x","e","c"," ","f","a","i","l"," ","("," ","e","r","r","o","r"," ","c","o","d","e"," ",":"," ","0","x","0","0","4","0","0","0","1",")","\r","\n">>

\* ortery_driver.py line 302: e = 'set_properties_data :  command exec fail ( error code : 0x004000a)\r\n'
e_set_properties_data_0a ==
  <<"s","e","t","_","p","r","o","p","e","r","t","i","e","s","_","d","a","t","a"," ",":"," "," ","c","o","m","m","a","n","d"," ","e","x","e","c"," ","f","a","i","l"," ","("," ","e","r","r","o","r"," ","c","o","d","e"," ",":"," ","0","x","0","0","4","0","0","0","a",")","\r","\n">>

\* ortery_driver.py line 306: e = 'set_properties_data :  command exec fail ( error code : 0x0040005)\r\n'
e_set_properties_data_05 ==
  <<"s","e","t","_","p","r","o","p","e","r","t","i","e","s","_","d","a","t","a"," ",":"," "," ","c","o","m","m","a","n","d"," ","e","x","e","c"," ","f","a","i","l"," ","("," ","e","r","r","o","r"," ","c","o","d","e"," ",":"," ","0","x","0","0","4","0","0","0","5",")","\r","\n">>

\* ortery_driver.py line 341: e = 'send_command :  command exec fail ( error code : 0x0040001)\r\n'
e_send_command_01 ==
  <<"s","e","n","d","_","c","o","m","m","a","n","d"," ",":"," "," ","c","o","m","m","a","n","d"," ","e","x","e","c"," ","f","a","i","l"," ","("," ","e","r","r","o","r"," ","c","o","d","e"," ",":"," ","0","x","0","0","4","0","0","0","1",")","\r","\n">>

\* ortery_driver.py line 344: e = 'send_command :  command exec fail ( error code : 0x004000a)\r\n'
e_send_command_0a ==
  <<"s","e","n","d","_","c","o","m","m","a","n","d"," ",":"," "," ","c","o","m","m","a","n","d"," ","e","x","e","c"," ","f","a","i","l"," ","("," ","e","r","r","o","r"," ","c","o","d","e"," ",":"," ","0","x","0","0","4","0","0","0","a",")","\r","\n">>

\* ortery_driver.py line 347: e = 'send_command :  command exec fail ( error code : 0x0040005)\r\n'
e_send_command_05 ==
  <<"s","e","n","d","_","c","o","m","m","a","n","d"," ",":"," "," ","c","o","m","m","a","n","d"," ","e","x","e","c"," ","f","a","i","l"," ","("," ","e","r","r","o","r"," ","c","o","d","e"," ",":"," ","0","x","0","0","4","0","0","0","5",")","\r","\n">>

\* ortery_driver.py line 373: e = 'turntable :  command exec fail ( error code : 0x0040001)\r\n'
e_turntable_01 ==
  <<"t","u","r","n","t","a","b","l","e"," ",":"," "," ","c","o","m","m","a","n","d"," ","e","x","e","c"," ","f","a","i","l"," ","("," ","e","r","r","o","r"," ","c","o","d","e"," ",":"," ","0","x","0","0","4","0","0","0","1",")","\r","\n">>

(***************************************************************************)
(* Exceptions.  An exception class is constructed with the arguments the   *)
(* raise statement passes; a class called with a number of arguments its   *)
(* __init__ does not take raises TypeError instead.                        *)
(***************************************************************************)
\* the number of arguments (after self) each __init__ takes
init_arity ==
  [UnexpectedOutputException |-> 3,
   InvalidIdException |-> 1,
   PropertyValueUnsupportedException |-> 3,
   SetPropertiesValueUnsupportedException |-> 3,
   GetPropertyValueUnsupportedException |-> 2,
   GetPropertyDeviceNotSupportPropertyException |-> 2,
   SetPropertyValueUnsupportedException |-> 3,
   SetPropertyDeviceNotSupportException |-> 3,
   SetPropertyDeviceNotSupportPropertyException |-> 2,
   CommandUnsupportedException |-> 2,
   CommandNotSupportedByDeviceException |-> 2,
   ValueError |-> 1]

\* raise cls(*a)
raise(cls, a) ==
  IF Len(a) = init_arity[cls] THEN Raise(cls, a)
  ELSE Raise("TypeError", <<cls, Len(a)>>)

(***************************************************************************)
(* The regular expressions of the driver.                                  *)
(***************************************************************************)
CRLF == <<"\r","\n">>

NoMatch == [matched |-> FALSE, groups |-> <<>>]

Match(gs) == [matched |-> TRUE, groups |-> gs]

\* whether the text lit occurs in s at index i
HasAt(s, i, lit) ==
  /\ i + Len(lit) - 1 <= Len(s)
  /\ SubSeq(s, i, i + Len(lit) - 1) = lit

\* the length of the longest run of [0-9] in s that starts at index i
DigitRun(s, i) ==
  IF i > Len(s) THEN 0
  ELSE (CHOOSE j \in i..(Len(s) + 1) :
          /\ j > Len(s) \/ ~IsDigit(s[j])
          /\ \A k \in i..(j - 1) : IsDigit(s[k])) - i

\* the length of the longest run of [A-Za-z0-9 ] in s that starts at index i
RECURSIVE NameRun(_, _)
NameRun(s, i) ==
  IF i <= Len(s) /\ IsNameChar(s[i]) THEN 1 + NameRun(s, i + 1) ELSE 0

\* re.search('^([0-9]+)\\r\\n$', output): '$' matches at the end of the text
\* and before a newline that ends the text
search_device_count(output) ==
  LET k == DigitRun(output, 1)
      n == Len(output)
  IN IF /\ k >= 1
        /\ HasAt(output, k + 1, CRLF)
        /\ \/ n = k + 2
           \/ n = k + 3 /\ output[n] = "\n"
     THEN Match(<<SubSeq(output, 1, k)>>)
     ELSE NoMatch

ProductNameLabel ==
  <<"P","r","o","d","u","c","t"," ","N","a","m","e"," ",":"," ">>

DeviceIdLabel ==
  <<"\r","\n","D","e","v","i","c","e"," ","I","D"," ",":"," ">>

\* re.search('^Product Name : ([A-Za-z0-9 ]+)\\r\\nDevice ID : ([0-9]+)\\r\\n', output)
search_device_info(output) ==
  LET p1 == Len(ProductNameLabel) + 1
      k1 == NameRun(output, p1)
      p2 == p1 + k1 + Len(DeviceIdLabel)
      k2 == DigitRun(output, p2)
  IN IF /\ HasAt(output, 1, ProductNameLabel)
        /\ k1 >= 1
        /\ HasAt(output, p1 + k1, DeviceIdLabel)
        /\ k2 >= 1
        /\ HasAt(output, p2 + k2, CRLF)
     THEN Match(<<SubSeq(output, p1, p1 + k1 - 1), SubSeq(output, p2, p2 + k2 - 1)>>)
     ELSE NoMatch

\* whether '([0-9]+)\r\n' matches at index i of output: the digits are taken
\* greedily, and no shorter run is followed by \r\n
matches_id_at(output, i) ==
  LET k == DigitRun(output, i)
  IN k >= 1 /\ HasAt(output, i + k, CRLF)

\* re.findall('([0-9]+)\r\n', output), scanning from index i: each match is the
\* leftmost one at or after the end of the match before it.  A match that
\* starts inside a run of digits has a match at the start of the run (or at i)
\* to its left, so only those indexes are candidates
RECURSIVE findall_from(_, _)
findall_from(output, i) ==
  LET starts == {p \in i..Len(output) :
                   /\ IsDigit(output[p])
                   /\ p = i \/ ~IsDigit(output[p - 1])
                   /\ matches_id_at(output, p)}
  IN IF starts = {} THEN <<>>
     ELSE LET p == CHOOSE q \in starts : \A r \in starts : q <= r
              k == DigitRun(output, p)
          IN <<SubSeq(output, p, p + k - 1)>> \o findall_from(output, p + k + 2)

\* findall_ids with re.search in place of re.findall: only the first match
findall_ids_first_only(output) ==
  LET all == findall_from(output, 1)
  IN IF all = <<>> THEN <<>> ELSE <<all[1]>>

findall_ids(output) == findall_from(output, 1)

\* search_property_data with the pattern '^([0-9]+)$'
search_property_data_to_end(output) ==
  LET k == DigitRun(output, 1)
  IN IF k >= 1 /\ (k = Len(output) \/ (k + 1 = Len(output) /\ output[k + 1] = "\n"))
     THEN Match(<<SubSeq(output, 1, k)>>)
     ELSE NoMatch

\* re.search('^([0-9]+)', output)
search_property_data(output) ==
  LET k == DigitRun(output, 1)
  IN IF k >= 1 THEN Match(<<SubSeq(output, 1, k)>>) ELSE NoMatch

(***************************************************************************)
(* The static tables.                                                      *)
(***************************************************************************)
Command(name, value, description) ==
  [class |-> "Command", name |-> name, value |-> value, description |-> description]

command_dict ==
  (12801 :> Command("otadDEVICE_COMMAND_CABLERLEASE_OFF", 12801,
                    "Shutter Release OFF")) @@
  (12802 :> Command("otadDEVICE_COMMAND_CABLERLEASE_HALFWAY", 12802,
                    "Shutter Release Halfway (Focus)")) @@
  (12803 :> Command("otadDEVICE_COMMAND_CABLERLEASE_COMPLETELY", 12803,
                    "Shutter Release Completely (Snap)")) @@
  (13057 :> Command("otadDEVICE_COMMAND_TURNTABLE_STOP", 13057,
                    "Stop the turntable")) @@
  (13058 :> Command("otadDEVICE_COMMAND_TURNTABLE_RELEASE", 13058,
                    "Release the motor of turntable")) @@
  (16641 :> Command("otadDEVICE_PROPERTY_TURNTABLE_STATE", 16641,
                    "State of turntable"))

UnknownCommand == [class |-> "UnknownCommand"]

Property(name, value, description) ==
  [class |-> "Property", name |-> name, value |-> value, description |-> description]

property_dict ==
  (16641 :> Property("otadDEVICE_PROPERTY_TURNTABLE_STATE", 16641,
                     "State of turntable")) @@
  (16643 :> Property("otadDEVICE_PROPERTY_TURNTABLE_TOTAL_STEPS", 16643,
                     "Total step of turntable"))

UnknownProperty == [class |-> "UnknownProperty"]

\* dict.get(key, default)
dict_get(dict, key, default) ==
  IF key \in DOMAIN dict THEN dict[key] ELSE default

\* [dict.get(int(id), default) for id in ids]: the list, or the ValueError of
\* the first id int() does not convert
get_each(dict, ids, default) ==
  LET raising == {i \in 1..Len(ids) : int_raises(ids[i])}
  IN IF raising # {}
     THEN int_error(ids[CHOOSE i \in raising : \A j \in raising : i <= j])
     ELSE Return([i \in 1..Len(ids) |-> dict_get(dict, int(ids[i]), default)])

DeviceInfo(product_name, device_i) ==
  [class |-> "DeviceInfo", product_name |-> product_name, device_i |-> device_i]

(***************************************************************************)
(* rwo (ortery_driver.py lines 25-35).  The standard output of the process *)
(* is a sequence of bytes: a byte below 0x80 is written as its character,  *)
(* the bytes 0xc3, 0xa9 and 0xff by name.  rwo returns what                *)
(* proc.stdout.decode('utf-8') returns, or raises its UnicodeDecodeError.  *)
(***************************************************************************)
\* 0xc3 starts a sequence of two bytes, 0xa9 continues one, 0xff is in no
\* UTF-8 sequence
NonAsciiBytes == {"0xc3", "0xa9", "0xff"}

\* the reason the byte at index i of stdout cannot be decoded, "" if it can
decode_error_at(stdout, i) ==
  CASE stdout[i] = "0xff" -> "invalid start byte"
    [] stdout[i] = "0xa9" ->
         IF i > 1 /\ stdout[i - 1] = "0xc3" THEN "" ELSE "invalid start byte"
    [] stdout[i] = "0xc3" ->
         IF i = Len(stdout) THEN "unexpected end of data"
         ELSE IF stdout[i + 1] = "0xa9" THEN ""
         ELSE "invalid continuation byte"
    [] OTHER -> ""

\* the character a decodable byte gives: 0xc3 0xa9 is U+00E9
decode_char(b) == IF b = "0xa9" THEN "U+00E9" ELSE b

\* stdout.decode('utf-8'): the text, or UnicodeDecodeError with the encoding,
\* the bytes, the start and end of the first undecodable sequence (counted
\* from 0) and the reason.  Bytes below 0x80 decode to their characters, so
\* an output of such bytes alone is its own text
decode(stdout) ==
  LET high == {i \in 1..Len(stdout) : stdout[i] \in NonAsciiBytes}
      errors == {i \in high : decode_error_at(stdout, i) # ""}
      first == CHOOSE i \in errors : \A j \in errors : i <= j
      reason == decode_error_at(stdout, first)
      kept == SelectSeq(stdout, LAMBDA b : b # "0xc3")
  IN IF errors # {}
     THEN Raise("UnicodeDecodeError",
                <<"utf-8", stdout, first - 1,
                  IF reason = "unexpected end of data" THEN Len(stdout) ELSE first,
                  reason>>)
     ELSE IF high = {} THEN Return(stdout)
     ELSE Return([i \in 1..Len(kept) |-> decode_char(kept[i])])

\* rwo(command), for the standard output the process has written
rwo(stdout) == decode(stdout)

(***************************************************************************)
(* The driver functions (ortery_driver.py).  `outs' is the sequence of     *)
(* what the calls of rwo the function has made so far have done: each has  *)
(* returned a text or raised.                                              *)
(***************************************************************************)
get_device_count(outs) ==
  LET command == Command_line("get_device_count", <<>>)
  IN IF outs = <<>> THEN Called(<<command>>, Pending)
     ELSE LET r == outs[1]
              output == r.val
              m == search_device_count(output)
          IN IF r.kind = "raise" THEN Called(<<command>>, r)
             ELSE IF ~m.matched \/ Len(m.groups) < 2
             THEN Called(<<command>>,
                         raise("UnexpectedOutputException", <<command, output, m>>))
             ELSE IF int_raises(m.groups[1])
             THEN Called(<<command>>, int_error(m.groups[1]))
             ELSE Called(<<command>>, Return(int(m.groups[1])))

get_device_info(device_i, outs) ==
  LET command == Command_line("get_device_info", <<device_i>>)
  IN IF outs = <<>> THEN Called(<<command>>, Pending)
     ELSE LET r == outs[1]
              output == r.val
              m == search_device_info(output)
          IN IF r.kind = "raise" THEN Called(<<command>>, r)
             ELSE IF output = e_get_device_info_01
             THEN Called(<<command>>, raise("InvalidIdException", <<device_i>>))
             ELSE IF ~m.matched \/ Len(m.groups) < 3
             THEN Called(<<command>>,
                         raise("UnexpectedOutputException", <<command, output, m>>))
             ELSE Called(<<command>>, Return(DeviceInfo(m.groups[1], m.groups[2])))

\* get_command_desc without the test for the error text
get_command_desc_no_error_test(device_i, outs) ==
  LET cmd == Command_line("get_command_desc", <<device_i>>)
  IN IF outs = <<>> THEN Called(<<cmd>>, Pending)
     ELSE LET r == outs[1]
              output == r.val
              command_ids == findall_ids(output)
          IN IF r.kind = "raise" THEN Called(<<cmd>>, r)
             ELSE Called(<<cmd>>,
                    get_each(command_dict, command_ids, UnknownCommand))

get_command_desc(device_i, outs) ==
  LET cmd == Command_line("get_command_desc", <<device_i>>)
  IN IF outs = <<>> THEN Called(<<cmd>>, Pending)
     ELSE LET r == outs[1]
              output == r.val
              command_ids == findall_ids(output)
          IN IF r.kind = "raise" THEN Called(<<cmd>>, r)
             ELSE IF output = e_get_command_desc_01
             THEN Called(<<cmd>>, raise("InvalidIdException", <<device_i>>))
             ELSE Called(<<cmd>>,
                         get_each(command_dict, command_ids, UnknownCommand))

get_property_desc(device_i, outs) ==
  LET cmd == Command_line("get_property_desc", <<device_i>>)
  IN IF outs = <<>> THEN Called(<<cmd>>, Pending)
     ELSE LET r == outs[1]
              output == r.val
              property_ids == findall_ids(output)
          IN IF r.kind = "raise" THEN Called(<<cmd>>, r)
             ELSE IF output = e_get_property_desc_01
             THEN Called(<<cmd>>, raise("InvalidIdException", <<device_i>>))
             ELSE Called(<<cmd>>,
                         get_each(property_dict, property_ids, UnknownProperty))

\* get_property_data_body going round the loop again on an output that does
\* not match, instead of raising UnexpectedOutputException
get_property_data_body_retry_unmatched(cmd, device_i, property_id, output) ==
  LET m == search_property_data(output)
  IN IF output = <<>> THEN Pending
     ELSE IF output = e_get_property_data_01
     THEN raise("InvalidIdException", <<device_i>>)
     ELSE IF output = e_get_property_data_0a
     THEN raise("GetPropertyValueUnsupportedException", <<device_i, property_id>>)
     ELSE IF output = e_get_property_data_05
     THEN raise("GetPropertyDeviceNotSupportPropertyException",
                <<device_i, property_id>>)
     ELSE IF ~m.matched \/ Len(m.groups) < 1
     THEN Pending
     ELSE IF int_raises(m.groups[1]) THEN int_error(m.groups[1])
     ELSE Return(int(m.groups[1]))

\* get_property_data_body without `if output == '': continue'
get_property_data_body_no_retry(cmd, device_i, property_id, output) ==
  LET m == search_property_data(output)
  IN IF output = e_get_property_data_01
     THEN raise("InvalidIdException", <<device_i>>)
     ELSE IF output = e_get_property_data_0a
     THEN raise("GetPropertyValueUnsupportedException", <<device_i, property_id>>)
     ELSE IF output = e_get_property_data_05
     THEN raise("GetPropertyDeviceNotSupportPropertyException",
                <<device_i, property_id>>)
     ELSE IF ~m.matched \/ Len(m.groups) < 1
     THEN raise("UnexpectedOutputException", <<cmd, output, m>>)
     ELSE IF int_raises(m.groups[1]) THEN int_error(m.groups[1])
     ELSE Return(int(m.groups[1]))

\* one pass through the body of the while loop of get_property_data, for the
\* output rwo returned: Pending when the loop goes round again
get_property_data_body(cmd, device_i, property_id, output) ==
  LET m == search_property_data(output)
  IN IF output = <<>> THEN Pending
     ELSE IF output = e_get_property_data_01
     THEN raise("InvalidIdException", <<device_i>>)
     ELSE IF output = e_get_property_data_0a
     THEN raise("GetPropertyValueUnsupportedException", <<device_i, property_id>>)
     ELSE IF output = e_get_property_data_05
     THEN raise("GetPropertyDeviceNotSupportPropertyException",
                <<device_i, property_id>>)
     ELSE IF ~m.matched \/ Len(m.groups) < 1
     THEN raise("UnexpectedOutputException", <<cmd, output, m>>)
     ELSE IF int_raises(m.groups[1]) THEN int_error(m.groups[1])
     ELSE Return(int(m.groups[1]))

\* the while loop of get_property_data after n passes that went round again
RECURSIVE get_property_data_loop(_, _, _, _, _)
get_property_data_loop(cmd, device_i, property_id, outs, n) ==
  LET invoked == [i \in 1..(n + 1) |-> cmd]
  IN IF Len(outs) = n THEN Called(invoked, Pending)
     ELSE LET r == outs[n + 1]
              res == get_property_data_body(cmd, device_i, property_id, r.val)
          IN IF r.kind = "raise" THEN Called(invoked, r)
             ELSE IF res.kind = "pending"
             THEN get_property_data_loop(cmd, device_i, property_id, outs, n + 1)
             ELSE Called(invoked, res)

get_property_data(device_i, property_id, outs) ==
  get_property_data_loop(Command_line("get_property_data", <<device_i, property_id>>),
                         device_i, property_id, outs, 0)

set_property_data(device_i, property_id, data, outs) ==
  LET cmd == Command_line("set_property_data", <<device_i, property_id, data>>)
  IN IF device_i = PyNone THEN Called(<<>>, raise("ValueError", <<"device_i">>))
     ELSE IF property_id = PyNone
     THEN Called(<<>>, raise("ValueError", <<"property_id">>))
     ELSE IF data = PyNone THEN Called(<<>>, raise("ValueError", <<"data">>))
     ELSE IF outs = <<>> THEN Called(<<cmd>>, Pending)
     ELSE LET r == outs[1]
              output == r.val
          IN IF r.kind = "raise" THEN Called(<<cmd>>, r)
             ELSE IF output = e_set_property_data_01
             THEN Called(<<cmd>>, raise("InvalidIdException", <<device_i>>))
             ELSE IF output = e_set_property_data_0a
             THEN Called(<<cmd>>, raise("SetPropertyValueUnsupportedException",
                                        <<device_i, property_id, data>>))
             ELSE IF output = e_set_property_data_05
             THEN Called(<<cmd>>, raise("SetPropertyDeviceNotSupportException",
                                        <<device_i, property_id, data>>))
             ELSE Called(<<cmd>>, Return(TRUE))

\* set_properties_data with the length test off by one
set_properties_data_max_21(device_i, properties, data, outs) ==
  LET cmd_builder == Command_line("set_properties_data",
                                  <<device_i, data>> \o properties.v)
  IN IF device_i.type # "int"
     THEN Called(<<>>, raise("ValueError", <<"device_i needs to be an int">>))
     ELSE IF properties.type # "list"
     THEN Called(<<>>, raise("ValueError", <<"device_i should be a list">>))
     ELSE IF Len(properties.v) = 0
     THEN Called(<<>>, raise("ValueError",
                             <<"At least one property should be specified">>))
     ELSE IF Len(properties.v) > 21
     THEN Called(<<>>, raise("ValueError",
                             <<"Maximum of 20 properties can be set at a time">>))
     ELSE IF outs = <<>> THEN Called(<<cmd_builder>>, Pending)
     ELSE LET r == outs[1]
              output == r.val
          IN IF r.kind = "raise" THEN Called(<<cmd_builder>>, r)
             ELSE IF output = e_set_properties_data_01
             THEN Called(<<cmd_builder>>, raise("InvalidIdException", <<device_i>>))
             ELSE IF output = e_set_properties_data_0a
             THEN Called(<<cmd_builder>>,
                         raise("SetPropertiesValueUnsupportedException",
                               <<device_i, properties, data>>))
             ELSE IF output = e_set_properties_data_05
             THEN Called(<<cmd_builder>>,
                         raise("SetPropertyDeviceNotSupportPropertyException",
                               <<device_i, properties, data>>))
             ELSE Called(<<cmd_builder>>, Return(TRUE))

set_properties_data(device_i, properties, data, outs) ==
  LET cmd_builder == Command_line("set_properties_data",
                                  <<device_i, data>> \o properties.v)
  IN IF device_i.type # "int"
     THEN Called(<<>>, raise("ValueError", <<"device_i needs to be an int">>))
     ELSE IF properties.type # "list"
     THEN Called(<<>>, raise("ValueError", <<"device_i should be a list">>))
     ELSE IF Len(properties.v) = 0
     THEN Called(<<>>, raise("ValueError",
                             <<"At least one property should be specified">>))
     ELSE IF Len(properties.v) > 20
     THEN Called(<<>>, raise("ValueError",
                             <<"Maximum of 20 properties can be set at a time">>))
     ELSE IF outs = <<>> THEN Called(<<cmd_builder>>, Pending)
     ELSE LET r == outs[1]
              output == r.val
          IN IF r.kind = "raise" THEN Called(<<cmd_builder>>, r)
             ELSE IF output = e_set_properties_data_01
             THEN Called(<<cmd_builder>>, raise("InvalidIdException", <<device_i>>))
             ELSE IF output = e_set_properties_data_0a
             THEN Called(<<cmd_builder>>,
                         raise("SetPropertiesValueUnsupportedException",
                               <<device_i, properties, data>>))
             ELSE IF output = e_set_properties_data_05
             THEN Called(<<cmd_builder>>,
                         raise("SetPropertyDeviceNotSupportPropertyException",
                               <<device_i, properties, data>>))
             ELSE Called(<<cmd_builder>>, Return(TRUE))

send_command(device_i, command_id, outs) ==
  LET cmd == Command_line("send_command", <<device_i, command_id>>)
  IN IF device_i.type # "int"
     THEN Called(<<>>, raise("ValueError", <<"device_i needs to be an int">>))
     ELSE IF command_id.type # "int"
     THEN Called(<<>>, raise("ValueError", <<"command_id needs to be an int">>))
     ELSE IF outs = <<>> THEN Called(<<cmd>>, Pending)
     ELSE LET r == outs[1]
              output == r.val
          IN IF r.kind = "raise" THEN Called(<<cmd>>, r)
             ELSE IF output = e_send_command_01
             THEN Called(<<cmd>>, raise("InvalidIdException", <<device_i>>))
             ELSE IF output = e_send_command_0a
             THEN Called(<<cmd>>, raise("CommandUnsupportedException",
                                        <<device_i, command_id>>))
             ELSE IF output = e_send_command_05
             THEN Called(<<cmd>>, raise("CommandNotSupportedByDeviceException",
                                        <<device_i, command_id>>))
             ELSE Called(<<cmd>>, Return(TRUE))

SPEED_LOW == 0

SPEED_NORMAL == 1

SPEED_HIGH == 2

DIRECTION_CLOCKWISE == 0

DIRECTION_COUNTER_CLOCKWISE == 1

\* turntable with the 16-bit bound on step
turntable_step_65535(device_i, speed, direction, step, outs) ==
  LET cmd == Command_line("turntable", <<device_i, speed, direction, step>>)
  IN IF device_i.type # "int"
     THEN Called(<<>>, raise("ValueError", <<"device_i needs to be an int">>))
     ELSE IF speed.v < 0 \/ speed.v > 2
     THEN Called(<<>>, raise("ValueError", <<"The range for speed is from 0 to 2">>))
     ELSE IF direction.v # 0 /\ direction.v # 1
     THEN Called(<<>>, raise("ValueError",
                             <<"The accepted values for direction are 0 and 1.">>))
     ELSE IF step.v < 0 \/ step.v > 65535
     THEN Called(<<>>, raise("ValueError",
                             <<"The range for step is from 0 to 665535">>))
     ELSE IF outs = <<>> THEN Called(<<cmd>>, Pending)
     ELSE LET r == outs[1]
              output == r.val
          IN IF r.kind = "raise" THEN Called(<<cmd>>, r)
             ELSE IF output = e_turntable_01
             THEN Called(<<cmd>>, raise("InvalidIdException", <<device_i>>))
             ELSE Called(<<cmd>>, Return(TRUE))

turntable(device_i, speed, direction, step, outs) ==
  LET cmd == Command_line("turntable", <<device_i, speed, direction, step>>)
  IN IF device_i.type # "int"
     THEN Called(<<>>, raise("ValueError", <<"device_i needs to be an int">>))
     ELSE IF speed.v < 0 \/ speed.v > 2
     THEN Called(<<>>, raise("ValueError", <<"The range for speed is from 0 to 2">>))
     ELSE IF direction.v # 0 /\ direction.v # 1
     THEN Called(<<>>, raise("ValueError",
                             <<"The accepted values for direction are 0 and 1.">>))
     ELSE IF step.v < 0 \/ step.v > 665535
     THEN Called(<<>>, raise("ValueError",
                             <<"The range for step is from 0 to 665535">>))
     ELSE IF outs = <<>> THEN Called(<<cmd>>, Pending)
     ELSE LET r == outs[1]
              output == r.val
          IN IF r.kind = "raise" THEN Called(<<cmd>>, r)
             ELSE IF output = e_turntable_01
             THEN Called(<<cmd>>, raise("InvalidIdException", <<device_i>>))
             ELSE Called(<<cmd>>, Return(TRUE))

(***************************************************************************)
(* The service callbacks (turntable_node.py).  A callback's outcome is the *)
(* response it returns, or the exception that leaves it.                   *)
(***************************************************************************)
\* `except InvalidIdException:' for an exception raised in the try block: the
\* module imports the driver as `driver' and binds no name InvalidIdException,
\* so evaluating the clause raises NameError, which leaves the callback
except_InvalidIdException(raised) ==
  Raise("NameError", <<"InvalidIdException">>)

\* a bare `except:' clause, whose body sets response.success = False
except_all(raised) == Return([success |-> FALSE])

\* whether object o has the attributes read from it
has_attrs(o, names) == names \subseteq DOMAIN o

map_ortery_command_desc_to_ros_type(ocd) ==
  [class |-> "CommandDesc", name |-> ocd.name, value |-> ocd.value,
   description |-> ocd.description]

map_ortery_property_desc_to_ros_type(opd) ==
  [class |-> "PropertyDesc", name |-> opd.name, value |-> opd.value,
   description |-> opd.description]

get_device_count_callback(request, outs) ==
  LET c == get_device_count(outs)
  IN IF c.res.kind = "return"
     THEN Called(c.cmds, Return([count |-> c.res.val]))
     ELSE c

get_device_info_callback(request, outs) ==
  LET c == get_device_info(request.id, outs)
      device_info == c.res.val
  IN IF c.res.kind = "pending" THEN c
     ELSE IF c.res.kind = "raise"
     THEN Called(c.cmds, except_InvalidIdException(c.res))
     ELSE IF ~has_attrs(device_info, {"product_name", "device_id"})
     THEN Called(c.cmds, except_InvalidIdException(
                           Raise("AttributeError", <<"device_id">>)))
     ELSE Called(c.cmds, Return([product_name |-> device_info.product_name,
                                 device_id |-> device_info.device_id,
                                 success |-> TRUE]))

get_command_desc_callback(request, outs) ==
  LET c == get_command_desc(request.id, outs)
      command_descs == c.res.val
  IN IF c.res.kind = "pending" THEN c
     ELSE IF c.res.kind = "raise"
     THEN Called(c.cmds, except_InvalidIdException(c.res))
     ELSE IF \E i \in 1..Len(command_descs) :
               ~has_attrs(command_descs[i], {"name", "value", "description"})
     THEN Called(c.cmds, except_InvalidIdException(
                           Raise("AttributeError", <<"name">>)))
     ELSE Called(c.cmds,
                 Return([command_descs |->
                           [i \in 1..Len(command_descs) |->
                              map_ortery_command_desc_to_ros_type(command_descs[i])],
                         success |-> TRUE]))

get_property_desc_callback(request, outs) ==
  LET c == get_property_desc(request.id, outs)
      property_descs == c.res.val
  IN IF c.res.kind = "pending" THEN c
     ELSE IF c.res.kind = "raise"
     THEN Called(c.cmds, except_InvalidIdException(c.res))
     ELSE IF \E i \in 1..Len(property_descs) :
               ~has_attrs(property_descs[i], {"name", "value", "description"})
     THEN Called(c.cmds, except_InvalidIdException(
                           Raise("AttributeError", <<"name">>)))
     ELSE Called(c.cmds,
                 Return([property_descs |->
                           [i \in 1..Len(property_descs) |->
                              map_ortery_property_desc_to_ros_type(property_descs[i])],
                         success |-> TRUE]))

get_property_data_callback(request, outs) ==
  LET c == get_property_data(request.device_i, request.property_id, outs)
  IN IF c.res.kind = "pending" THEN c
     ELSE IF c.res.kind = "raise"
     THEN Called(c.cmds, except_InvalidIdException(c.res))
     ELSE Called(c.cmds, Return([data |-> c.res.val, success |-> TRUE]))

\* the value returned is assigned to result.success, and `result' is not bound
set_property_data_callback(request, outs) ==
  LET c == set_property_data(request.device_i, request.property_id,
                             request.data, outs)
  IN IF c.res.kind = "pending" THEN c
     ELSE IF c.res.kind = "raise" THEN Called(c.cmds, except_all(c.res))
     ELSE Called(c.cmds, except_all(Raise("NameError", <<"result">>)))

set_properties_data_callback(request, outs) ==
  LET c == set_properties_data(request.device_i, request.properties,
                               request.data, outs)
  IN IF c.res.kind = "pending" THEN c
     ELSE IF c.res.kind = "raise" THEN Called(c.cmds, except_all(c.res))
     ELSE Called(c.cmds, Return([success |-> c.res.val]))

send_command_callback(request, outs) ==
  LET c == send_command(request.device_i, request.command, outs)
  IN IF c.res.kind = "pending" THEN c
     ELSE IF c.res.kind = "raise" THEN Called(c.cmds, except_all(c.res))
     ELSE Called(c.cmds, Return([success |-> c.res.val]))

\* `device' is not bound: device.turntable raises NameError before any call
turntable_callback(request, outs) ==
  Called(<<>>, except_all(Raise("NameError", <<"device">>)))

\* total_steps is read with get_property_data; then device.turntable raises
\* NameError as in turntable_callback
turntable_degree_callback(request, outs) ==
  LET c == get_property_data(request.device_i, PyInt(16643), outs)
  IN IF c.res.kind = "pending" THEN c
     ELSE IF c.res.kind = "raise" THEN Called(c.cmds, except_all(c.res))
     ELSE Called(c.cmds, except_all(Raise("NameError", <<"device">>)))

(***************************************************************************)
(* The inputs of the model: the arguments of the calls, and the standard   *)
(* outputs of the processes rwo runs, built from a small vocabulary of     *)
(* chunks for each function.                                               *)
(***************************************************************************)
\* the texts made of at most n chunks of the vocabulary
RECURSIVE Texts(_, _)
Texts(vocabulary, n) ==
  IF n = 0 THEN {<<>>}
  ELSE LET shorter == Texts(vocabulary, n - 1)
       IN shorter \cup {t \o c : t \in shorter, c \in vocabulary}

CountOutputs ==
  Texts({<<"3">>, <<"1","0">>, CRLF, <<"\n">>, <<"a">>}, MaxChunks)

InfoOutputs ==
  Texts({<<"P","r","o","d","u","c","t"," ","N","a","m","e"," ",":"," ","P","h","o","t","o","b","e","n","c","h"," ","E">>,
         <<"\r","\n","D","e","v","i","c","e"," ","I","D"," ",":"," ","3">>,
         CRLF, <<"7">>, <<"!">>,
         e_get_device_info_01, e_get_command_desc_01}, MaxChunks)

DescOutputs ==
  Texts({<<"1","2","8","0","1","\r","\n">>, <<"1","6","6","4","1","\r","\n">>,
         <<"1","6","6","4","3","\r","\n">>, <<"5">>, <<"a">>, CRLF,
         e_get_command_desc_01, e_get_property_desc_01}, MaxChunks)

PropertyDataOutputs ==
  Texts({<<"4","2">>, <<"a">>, CRLF, e_get_property_data_01,
         e_get_property_data_0a, e_get_property_data_05}, MaxChunks)

SetPropertyOutputs ==
  Texts({<<"1">>, <<"a">>, CRLF, e_set_property_data_01, e_set_property_data_0a,
         e_set_property_data_05, e_set_properties_data_01}, MaxChunks)

SetPropertiesOutputs ==
  Texts({<<"a">>, e_set_properties_data_01, e_set_properties_data_0a,
         e_set_properties_data_05}, MaxChunks)

SendCommandOutputs ==
  Texts({<<"a">>, CRLF, e_send_command_01, e_send_command_0a,
         e_send_command_05, e_turntable_01}, MaxChunks)

TurntableOutputs ==
  Texts({<<"a">>, CRLF, e_turntable_01, e_send_command_01}, MaxChunks)

\* standard outputs with bytes above 0x7f: five that are not UTF-8 and one
\* that is
NonAsciiOutputs ==
  {<<"0xff">>, <<"4","2","0xff","\r","\n">>, <<"0xc3">>, <<"0xc3","a">>,
   <<"0xa9">>, <<"0xc3","0xa9">>}

\* a run of one digit more than int() converts
LongDigits == [i \in 1..(int_max_str_digits + 1) |-> "1"]

LongDigitOutputs ==
  {LongDigits, LongDigits \o CRLF,
   <<"1","2","8","0","1","\r","\n">> \o LongDigits \o CRLF}

DeviceIndexes == {PyInt(0), PyInt(1)}

PropertyIds == {PyInt(16641), PyInt(16643)}

CommandIds == {PyInt(13057), PyInt(99)}

Speeds ==
  {PyInt(n) : n \in {SPEED_LOW - 1, SPEED_LOW, SPEED_NORMAL, SPEED_HIGH,
                    SPEED_HIGH + 1}}

Directions ==
  {PyInt(n) : n \in {DIRECTION_CLOCKWISE - 1, DIRECTION_CLOCKWISE,
                    DIRECTION_COUNTER_CLOCKWISE, DIRECTION_COUNTER_CLOCKWISE + 1}}

Steps == {PyInt(n) : n \in {-1, 0, 665535, 665536}}

\* the property lists of each length up to MaxProps, and a tuple
PropertyLists ==
  {PyList([i \in 1..n |-> 16641 + 2 * (i % 2)]) : n \in 0..MaxProps}
    \cup {PyTuple(<<16641>>)}

DriverFunctions ==
  {"get_device_count", "get_device_info", "get_command_desc", "get_property_desc",
   "get_property_data", "set_property_data", "set_properties_data",
   "send_command", "turntable"}

Callbacks ==
  {"get_device_count_callback", "get_device_info_callback",
   "get_command_desc_callback", "get_property_desc_callback",
   "get_property_data_callback", "set_property_data_callback",
   "set_properties_data_callback", "send_command_callback",
   "turntable_callback", "turntable_degree_callback"}

\* the driver function a callback calls
driver_function(h) ==
  CASE h = "get_device_count_callback" -> "get_device_count"
    [] h = "get_device_info_callback" -> "get_device_info"
    [] h = "get_command_desc_callback" -> "get_command_desc"
    [] h = "get_property_desc_callback" -> "get_property_desc"
    [] h = "get_property_data_callback" -> "get_property_data"
    [] h = "set_property_data_callback" -> "set_property_data"
    [] h = "set_properties_data_callback" -> "set_properties_data"
    [] h = "send_command_callback" -> "send_command"
    [] h = "turntable_callback" -> "turntable"
    [] h = "turntable_degree_callback" -> "get_property_data"
    [] OTHER -> h

\* the standard outputs of a process rwo runs for a call made by h
Outputs(h) ==
  LET f == driver_function(h)
  IN NonAsciiOutputs \cup
     CASE f = "get_device_count" -> CountOutputs
       [] f = "get_device_info" -> InfoOutputs
       [] f \in {"get_command_desc", "get_property_desc"} ->
            DescOutputs \cup LongDigitOutputs
       [] f = "get_property_data" -> PropertyDataOutputs \cup LongDigitOutputs
       [] f = "set_property_data" -> SetPropertyOutputs
       [] f = "set_properties_data" -> SetPropertiesOutputs
       [] f = "send_command" -> SendCommandOutputs
       [] f = "turntable" -> TurntableOutputs

\* the call of h with the arguments a, after rwo has returned outs to it
Eval(h, a, outs) ==
  CASE h = "get_device_count" -> get_device_count(outs)
    [] h = "get_device_info" -> get_device_info(a[1], outs)
    [] h = "get_command_desc" -> get_command_desc(a[1], outs)
    [] h = "get_property_desc" -> get_property_desc(a[1], outs)
    [] h = "get_property_data" -> get_property_data(a[1], a[2], outs)
    [] h = "set_property_data" -> set_property_data(a[1], a[2], a[3], outs)
    [] h = "set_properties_data" -> set_properties_data(a[1], a[2], a[3], outs)
    [] h = "send_command" -> send_command(a[1], a[2], outs)
    [] h = "turntable" -> turntable(a[1], a[2], a[3], a[4], outs)
    [] h = "get_device_count_callback" -> get_device_count_callback(a[1], outs)
    [] h = "get_device_info_callback" -> get_device_info_callback(a[1], outs)
    [] h = "get_command_desc_callback" -> get_command_desc_callback(a[1], outs)
    [] h = "get_property_desc_callback" -> get_property_desc_callback(a[1], outs)
    [] h = "get_property_data_callback" -> get_property_data_callback(a[1], outs)
    [] h = "set_property_data_callback" -> set_property_data_callback(a[1], outs)
    [] h = "set_properties_data_callback" ->
         set_properties_data_callback(a[1], outs)
    [] h = "send_command_callback" -> send_command_callback(a[1], outs)
    [] h = "turntable_callback" -> turntable_callback(a[1], outs)
    [] h = "turntable_degree_callback" -> turntable_degree_callback(a[1], outs)

(***************************************************************************)
(* The state machine.  pc is "idle" (no call in progress), "rwo" (the call *)
(* is blocked in rwo) or "done" (the call has returned or raised);         *)
(* `returned' holds what rwo has returned or raised to the call each time, *)
(* `sent' the commands the call has passed to rwo, `result' the call's     *)
(* outcome.                                                                *)
(***************************************************************************)
NoCall == [kind |-> "none", exc |-> "", val |-> <<>>]

Init ==
  /\ pc = "idle"
  /\ handler = "none"
  /\ args = <<>>
  /\ returned = <<>>
  /\ sent = <<>>
  /\ result = NoCall

\* h has been called with the arguments a and has run until it blocked in rwo
\* or ended: c is what it has done
Begin(h, a, c) ==
  /\ handler' = h
  /\ args' = a
  /\ returned' = <<>>
  /\ sent' = c.cmds
  /\ result' = c.res
  /\ pc' = IF c.res.kind = "pending" THEN "rwo" ELSE "done"

GetDeviceCount ==
  /\ pc = "idle"
  /\ Begin("get_device_count", <<>>, get_device_count(<<>>))

GetDeviceInfo ==
  /\ pc = "idle"
  /\ \E d \in DeviceIndexes :
       Begin("get_device_info", <<d>>, get_device_info(d, <<>>))

GetCommandDesc ==
  /\ pc = "idle"
  /\ \E d \in DeviceIndexes :
       Begin("get_command_desc", <<d>>, get_command_desc(d, <<>>))

GetPropertyDesc ==
  /\ pc = "idle"
  /\ \E d \in DeviceIndexes :
       Begin("get_property_desc", <<d>>, get_property_desc(d, <<>>))

GetPropertyData ==
  /\ pc = "idle"
  /\ \E d \in DeviceIndexes, p \in PropertyIds :
       Begin("get_property_data", <<d, p>>, get_property_data(d, p, <<>>))

SetPropertyData ==
  /\ pc = "idle"
  /\ \E d \in DeviceIndexes \cup {PyNone}, p \in {PyInt(16641), PyNone},
        v \in {PyInt(5), PyNone} :
       Begin("set_property_data", <<d, p, v>>, set_property_data(d, p, v, <<>>))

SetPropertiesData ==
  /\ pc = "idle"
  /\ \E d \in DeviceIndexes \cup {PyNone}, ps \in PropertyLists :
       Begin("set_properties_data", <<d, ps, PyInt(5)>>,
             set_properties_data(d, ps, PyInt(5), <<>>))

SendCommand ==
  /\ pc = "idle"
  /\ \E d \in DeviceIndexes \cup {PyNone}, c \in CommandIds \cup {PyNone} :
       Begin("send_command", <<d, c>>, send_command(d, c, <<>>))

Turntable ==
  /\ pc = "idle"
  /\ \E d \in DeviceIndexes \cup {PyNone}, speed \in Speeds,
        direction \in Directions, step \in Steps :
       Begin("turntable", <<d, speed, direction, step>>,
             turntable(d, speed, direction, step, <<>>))

GetDeviceCountCallback ==
  /\ pc = "idle"
  /\ \E request \in {[none |-> TRUE]} :
       Begin("get_device_count_callback", <<request>>,
             get_device_count_callback(request, <<>>))

GetDeviceInfoCallback ==
  /\ pc = "idle"
  /\ \E request \in [id : DeviceIndexes] :
       Begin("get_device_info_callback", <<request>>,
             get_device_info_callback(request, <<>>))

GetCommandDescCallback ==
  /\ pc = "idle"
  /\ \E request \in [id : DeviceIndexes] :
       Begin("get_command_desc_callback", <<request>>,
             get_command_desc_callback(request, <<>>))

GetPropertyDescCallback ==
  /\ pc = "idle"
  /\ \E request \in [id : DeviceIndexes] :
       Begin("get_property_desc_callback", <<request>>,
             get_property_desc_callback(request, <<>>))

GetPropertyDataCallback ==
  /\ pc = "idle"
  /\ \E request \in [device_i : DeviceIndexes, property_id : {PyInt(16641)}] :
       Begin("get_property_data_callback", <<request>>,
             get_property_data_callback(request, <<>>))

SetPropertyDataCallback ==
  /\ pc = "idle"
  /\ \E request \in [device_i : DeviceIndexes, property_id : {PyInt(16641)},
                      data : {PyInt(5)}] :
       Begin("set_property_data_callback", <<request>>,
             set_property_data_callback(request, <<>>))

SetPropertiesDataCallback ==
  /\ pc = "idle"
  /\ \E request \in [device_i : DeviceIndexes,
                      properties : {PyList([i \in 1..n |-> 16641]) : n \in {0, 1, 21}},
                      data : {PyInt(5)}] :
       Begin("set_properties_data_callback", <<request>>,
             set_properties_data_callback(request, <<>>))

SendCommandCallback ==
  /\ pc = "idle"
  /\ \E request \in [device_i : DeviceIndexes, command : CommandIds] :
       Begin("send_command_callback", <<request>>,
             send_command_callback(request, <<>>))

TurntableCallback ==
  /\ pc = "idle"
  /\ \E request \in [device_i : DeviceIndexes, speed : {PyInt(1)},
                      direction : {PyInt(0)}, step : Steps] :
       Begin("turntable_callback", <<request>>, turntable_callback(request, <<>>))

TurntableDegreeCallback ==
  /\ pc = "idle"
  /\ \E request \in [device_i : DeviceIndexes, speed : {PyInt(1)},
                      direction : {PyInt(0)}, degrees : {90}] :
       Begin("turntable_degree_callback", <<request>>,
             turntable_degree_callback(request, <<>>))

\* the process rwo has run ends: rwo returns its output to the call blocked in
\* it, or raises UnicodeDecodeError, and the call runs on until it blocks in
\* rwo again or ends; the empty output is given at most MaxEmpty times
RwoReturns ==
  /\ pc = "rwo"
  /\ \E stdout \in Outputs(handler) :
       /\ stdout = <<>> => Len(returned) < MaxEmpty
       /\ LET r == rwo(stdout)
              c == Eval(handler, args, Append(returned, r))
          IN /\ returned' = Append(returned, r)
             /\ sent' = c.cmds
             /\ result' = c.res
             /\ pc' = IF c.res.kind = "pending" THEN "rwo" ELSE "done"
  /\ UNCHANGED <<handler, args>>

\* the caller takes the outcome; the next call may begin
Finish ==
  /\ pc = "done"
  /\ pc' = "idle"
  /\ handler' = "none"
  /\ args' = <<>>
  /\ returned' = <<>>
  /\ sent' = <<>>
  /\ result' = NoCall

Next ==
  \/ GetDeviceCount
  \/ GetDeviceInfo
  \/ GetCommandDesc
  \/ GetPropertyDesc
  \/ GetPropertyData
  \/ SetPropertyData
  \/ SetPropertiesData
  \/ SendCommand
  \/ Turntable
  \/ GetDeviceCountCallback
  \/ GetDeviceInfoCallback
  \/ GetCommandDescCallback
  \/ GetPropertyDescCallback
  \/ GetPropertyDataCallback
  \/ SetPropertyDataCallback
  \/ SetPropertiesDataCallback
  \/ SendCommandCallback
  \/ TurntableCallback
  \/ TurntableDegreeCallback
  \/ RwoReturns
  \/ Finish

Spec == Init /\ [][Next]_vars

TypeOK ==
  /\ pc \in {"idle", "rwo", "done"}
  /\ handler \in DriverFunctions \cup Callbacks \cup {"none"}
  /\ result.kind \in {"none", "pending", "return", "raise"}
  /\ pc = "rwo" <=> result.kind = "pending"
  /\ pc = "idle" <=> result.kind = "none"

(***************************************************************************)
(* The vocabulary of the claims.                                           *)
(***************************************************************************)
\* the name of driver function f as text
OperationText(f) ==
  CASE f = "get_device_info" ->
       <<"g","e","t","_","d","e","v","i","c","e","_","i","n","f","o">>
    [] f = "get_command_desc" ->
       <<"g","e","t","_","c","o","m","m","a","n","d","_","d","e","s","c">>
    [] f = "get_property_desc" ->
       <<"g","e","t","_","p","r","o","p","e","r","t","y","_","d","e","s","c">>
    [] f = "get_property_data" ->
       <<"g","e","t","_","p","r","o","p","e","r","t","y","_","d","a","t","a">>
    [] f = "set_property_data" ->
       <<"s","e","t","_","p","r","o","p","e","r","t","y","_","d","a","t","a">>
    [] f = "set_properties_data" ->
       <<"s","e","t","_","p","r","o","p","e","r","t","i","e","s","_","d","a","t","a">>
    [] f = "send_command" ->
       <<"s","e","n","d","_","c","o","m","m","a","n","d">>
    [] f = "turntable" ->
       <<"t","u","r","n","t","a","b","l","e">>

\* the error codes of the vendor tool
InvalidIdCode == <<"0","x","0","0","4","0","0","0","1">>

UnsupportedCode == <<"0","x","0","0","4","0","0","0","a">>

NotSupportedByDeviceCode == <<"0","x","0","0","4","0","0","0","5">>

\* the text the vendor tool prints when operation f fails with an error code:
\* '<operation> :  command exec fail ( error code : <code>)' and CRLF
SentinelText(f, code) ==
  OperationText(f) \o
  <<" ",":"," "," ","c","o","m","m","a","n","d"," ","e","x","e","c"," ","f","a","i","l"," ","("," ","e","r","r","o","r"," ","c","o","d","e"," ",":"," ">> \o
  code \o <<")">> \o CRLF

\* the failure kind of an exception class
FailureKind(exc) ==
  CASE exc = "InvalidIdException" -> "InvalidDevice"
    [] exc = "UnexpectedOutputException" -> "ParseFailure"
    [] exc = "ValueError" -> "ValidationError"
    [] exc \in {"GetPropertyValueUnsupportedException",
                "SetPropertyValueUnsupportedException",
                "SetPropertiesValueUnsupportedException",
                "CommandUnsupportedException"} -> "OperationUnsupported"
    [] exc \in {"GetPropertyDeviceNotSupportPropertyException",
                "SetPropertyDeviceNotSupportException",
                "SetPropertyDeviceNotSupportPropertyException",
                "CommandNotSupportedByDeviceException"} -> "NotSupportedByDevice"
    [] OTHER -> "Other"

\* what the last call of rwo did: it returned a text or raised
last_rwo == returned[Len(returned)]

\* the last output rwo returned to the call
last_output == last_rwo.val

\* the call has ended after rwo returned an output to it
Answered == pc = "done" /\ Len(returned) >= 1 /\ last_rwo.kind = "return"

AllDigits(s) == Len(s) >= 1 /\ \A i \in 1..Len(s) : IsDigit(s[i])

AllNameChars(s) == Len(s) >= 1 /\ \A i \in 1..Len(s) : IsNameChar(s[i])

RECURSIVE Power10(_)
Power10(n) == IF n = 0 THEN 1 ELSE 10 * Power10(n - 1)

\* the number a text of decimal digits denotes
RECURSIVE DecimalValue(_)
DecimalValue(s) ==
  IF s = <<>> THEN 0
  ELSE DigitValue(Head(s)) * Power10(Len(s) - 1) + DecimalValue(Tail(s))

(***************************************************************************)
(* C1.  get_device_count: whenever rwo returns one or more decimal digits  *)
(* followed by CRLF and nothing else, the call returns that number; it     *)
(* raises UnexpectedOutputException only for other outputs.  The code      *)
(* raises for every output, because a match of the pattern has one group   *)
(* and the code asks for two.                                              *)
(***************************************************************************)
C1_DeviceCountParsed ==
  (/\ Answered
   /\ handler = "get_device_count"
   /\ \E k \in 1..Len(last_output) :
        /\ AllDigits(SubSeq(last_output, 1, k))
        /\ last_output = SubSeq(last_output, 1, k) \o CRLF)
  => /\ result.kind = "return"
     /\ result.val = DecimalValue(SubSeq(last_output, 1, Len(last_output) - 2))

(***************************************************************************)
(* C2.  get_device_info: whenever rwo returns                              *)
(* 'Product Name : <text>\r\nDevice ID : <digits>\r\n', the call returns a *)
(* DeviceInfo with product name <text> and device id the integer <digits>, *)
(* and does not raise.  The code raises UnexpectedOutputException for      *)
(* every such output, because a match has two groups and the code asks for *)
(* three.                                                                  *)
(***************************************************************************)
C2_DeviceInfoParsed ==
  (Answered /\ handler = "get_device_info") =>
    \A n \in 1..Len(last_output), d \in 1..Len(last_output) :
      LET text == SubSeq(last_output, Len(ProductNameLabel) + 1,
                         Len(ProductNameLabel) + n)
          from == Len(ProductNameLabel) + n + Len(DeviceIdLabel)
          digits == SubSeq(last_output, from + 1, from + d)
      IN (/\ from + d + 2 = Len(last_output)
          /\ AllNameChars(text)
          /\ AllDigits(digits)
          /\ last_output =
               ProductNameLabel \o text \o DeviceIdLabel \o digits \o CRLF)
         => /\ result.kind = "return"
            /\ result.val.product_name = text
            /\ result.val.device_i = DecimalValue(digits)

(***************************************************************************)
(* C3.  As claimed.  get_property_data: if rwo returns the empty text n    *)
(* times and then a text of digits, the call has passed the same command   *)
(* to rwo n+1 times and returns the integer; the call never ends on an     *)
(* empty output: while every output has been empty it is blocked in rwo    *)
(* again.  The code does not return the integer of a text of more than     *)
(* int_max_str_digits digits: int() raises ValueError.                     *)
(***************************************************************************)
C3_RetryOnEmpty ==
  handler = "get_property_data" =>
    /\ pc = "rwo" =>
         /\ \A i \in 1..Len(returned) : returned[i] = Return(<<>>)
         /\ Len(sent) = Len(returned) + 1
         /\ result.kind = "pending"
    /\ pc = "done" =>
         /\ Len(returned) >= 1
         /\ last_rwo # Return(<<>>)
         /\ \A i \in 1..(Len(returned) - 1) : returned[i] = Return(<<>>)
         /\ Len(sent) = Len(returned)
         /\ \A i \in 1..Len(sent) :
              sent[i] = Command_line("get_property_data", <<args[1], args[2]>>)
         /\ (Answered /\ AllDigits(last_output)) =>
              /\ result.kind = "return"
              /\ result.val = DecimalValue(last_output)

(***************************************************************************)
(* C3, amended.  The same, for a text of at most int_max_str_digits        *)
(* digits; for a text of more digits the call raises ValueError, after the *)
(* same n+1 invocations.                                                   *)
(***************************************************************************)
C3_RetryOnEmptyWithinLimit ==
  handler = "get_property_data" =>
    /\ pc = "rwo" =>
         /\ \A i \in 1..Len(returned) : returned[i] = Return(<<>>)
         /\ Len(sent) = Len(returned) + 1
         /\ result.kind = "pending"
    /\ pc = "done" =>
         /\ Len(returned) >= 1
         /\ last_rwo # Return(<<>>)
         /\ \A i \in 1..(Len(returned) - 1) : returned[i] = Return(<<>>)
         /\ Len(sent) = Len(returned)
         /\ \A i \in 1..Len(sent) :
              sent[i] = Command_line("get_property_data", <<args[1], args[2]>>)
         /\ (Answered /\ AllDigits(last_output)) =>
              IF Len(last_output) <= int_max_str_digits
              THEN /\ result.kind = "return"
                   /\ result.val = DecimalValue(last_output)
              ELSE result.kind = "raise" /\ result.exc = "ValueError"

\* rwo returned '' twice and then '42': three invocations, and 42 is returned
C3_Witness ==
  /\ handler = "get_property_data"
  /\ pc = "done"
  /\ returned = <<Return(<<>>), Return(<<>>), Return(<<"4","2">>)>>
  /\ Len(sent) = 3
  /\ result = Return(42)

(***************************************************************************)
(* C4.  set_properties_data: when rwo's output is the operation's sentinel *)
(* for code 0x0040001, 0x004000a or 0x0040005, the call fails with         *)
(* InvalidDevice, operation unsupported and not supported by this device   *)
(* respectively, and with no other kind of error.  For 0x0040005 the code  *)
(* raises TypeError: SetPropertyDeviceNotSupportPropertyException is       *)
(* constructed with three arguments and takes two.                         *)
(***************************************************************************)
C4_SetPropertiesSentinels ==
  (Answered /\ handler = "set_properties_data") =>
    /\ last_output = SentinelText("set_properties_data", InvalidIdCode) =>
         result.kind = "raise" /\ FailureKind(result.exc) = "InvalidDevice"
    /\ last_output = SentinelText("set_properties_data", UnsupportedCode) =>
         result.kind = "raise" /\ FailureKind(result.exc) = "OperationUnsupported"
    /\ last_output = SentinelText("set_properties_data", NotSupportedByDeviceCode) =>
         result.kind = "raise" /\ FailureKind(result.exc) = "NotSupportedByDevice"

(***************************************************************************)
(* C5.  turntable: for an integer device index, a call with speed outside  *)
(* {0,1,2}, direction outside {0,1} or step outside 0..665535 raises       *)
(* ValueError and rwo is not invoked; a call with all three in range       *)
(* invokes rwo exactly once.                                               *)
(***************************************************************************)
C5_RotateValidation ==
  (handler = "turntable" /\ args[1].type = "int") =>
    IF /\ args[2].v \in {0, 1, 2}
       /\ args[3].v \in {0, 1}
       /\ args[4].v \in 0..665535
    THEN Len(sent) = 1
    ELSE /\ pc = "done"
         /\ result.kind = "raise"
         /\ result.exc = "ValueError"
         /\ sent = <<>>

\* step = 665536 with speed and direction in range is rejected without rwo
C5_Witness ==
  /\ handler = "turntable"
  /\ pc = "done"
  /\ args = <<PyInt(0), PyInt(2), PyInt(1), PyInt(665536)>>
  /\ result.exc = "ValueError"
  /\ sent = <<>>

(***************************************************************************)
(* C6.  set_properties_data: a call whose property list has length 0 or    *)
(* more than 20 raises ValueError and rwo is not invoked; rwo is invoked   *)
(* only when the length is in 1..20.                                       *)
(***************************************************************************)
C6_PropertiesSize ==
  handler = "set_properties_data" =>
    /\ Len(args[2].v) \notin 1..20 =>
         /\ pc = "done"
         /\ result.kind = "raise"
         /\ result.exc = "ValueError"
         /\ sent = <<>>
    /\ sent # <<>> => Len(args[2].v) \in 1..20

\* a list of 21 property ids, with an integer device index, is rejected
C6_Witness ==
  /\ handler = "set_properties_data"
  /\ pc = "done"
  /\ args[1] = PyInt(0)
  /\ args[2].type = "list"
  /\ Len(args[2].v) = 21
  /\ result.exc = "ValueError"
  /\ sent = <<>>

(***************************************************************************)
(* C7.  Every driver function that takes a device index raises             *)
(* InvalidIdException carrying that device index, and neither raises       *)
(* UnexpectedOutputException nor returns a value, when rwo's output is     *)
(* exactly the function's sentinel text for code 0x0040001.                *)
(***************************************************************************)
C7_InvalidDevice ==
  (/\ Answered
   /\ handler \in DriverFunctions \ {"get_device_count"}
   /\ last_output = SentinelText(handler, InvalidIdCode))
  => result = Raise("InvalidIdException", <<args[1]>>)

\* turntable for device 1 answered with the turntable sentinel
C7_Witness ==
  /\ Answered
  /\ handler = "turntable"
  /\ args[1] = PyInt(1)
  /\ last_output = SentinelText("turntable", InvalidIdCode)
  /\ result = Raise("InvalidIdException", <<PyInt(1)>>)

(***************************************************************************)
(* C8.  As claimed.  get_command_desc and get_property_desc: for any       *)
(* output that is not the sentinel, the call returns a sequence with one   *)
(* entry for each numeric id of the output (a maximal run of decimal       *)
(* digits ended by CRLF), in the order of the output; an id of the static  *)
(* table yields its registered descriptor and any other id the Unknown     *)
(* variant.  No id makes the lookup fail.  In the code an id of more than  *)
(* int_max_str_digits digits does: int() raises ValueError.                *)
(***************************************************************************)
\* the indexes at which a CRLF that follows a digit begins
IdEnds(output) ==
  {j \in 2..(Len(output) - 1) :
     output[j] = "\r" /\ output[j + 1] = "\n" /\ IsDigit(output[j - 1])}

\* the maximal run of digits that ends just before index j
IdTextBefore(output, j) ==
  LET n == CHOOSE n \in 1..(j - 1) :
             /\ n < j - 1 => ~IsDigit(output[j - 1 - n])
             /\ \A q \in (j - n)..(j - 1) : IsDigit(output[q])
  IN SubSeq(output, j - n, j - 1)

\* the ids of the output as they are written, in its order
IdTextsOf(output) ==
  LET ends == IdEnds(output)
      \* the k-th smallest element of ends
      nth(k) == CHOOSE j \in ends : Cardinality({e \in ends : e < j}) = k - 1
  IN [k \in 1..Cardinality(ends) |-> IdTextBefore(output, nth(k))]

\* the descriptors of the ids of the output, looked up in table
DescriptorsReturned(output, table, unknown) ==
  LET texts == IdTextsOf(output)
  IN /\ result.kind = "return"
     /\ Len(result.val) = Len(texts)
     /\ \A k \in 1..Len(texts) :
          LET id == DecimalValue(texts[k])
          IN IF id \in DOMAIN table
             THEN result.val[k] = table[id]
             ELSE result.val[k] = unknown

\* C8 as claimed: one entry for each id of the output, in order; table ids
\* give their registered descriptor, other ids the Unknown variant; the call
\* returns
C8_Descriptors ==
  /\ (Answered /\ handler = "get_command_desc"
       /\ last_output # SentinelText("get_command_desc", InvalidIdCode)) =>
        DescriptorsReturned(last_output, command_dict, UnknownCommand)
  /\ (Answered /\ handler = "get_property_desc"
       /\ last_output # SentinelText("get_property_desc", InvalidIdCode)) =>
        DescriptorsReturned(last_output, property_dict, UnknownProperty)

\* some id of the output has more digits than int() converts
HasLongId(output) ==
  LET texts == IdTextsOf(output)
  IN \E k \in 1..Len(texts) : Len(texts[k]) > int_max_str_digits

\* C8 amended: the same when every id has at most int_max_str_digits digits;
\* with a longer id the call raises ValueError and returns no list
C8_DescriptorsWithinLimit ==
  /\ (Answered /\ handler = "get_command_desc"
       /\ last_output # SentinelText("get_command_desc", InvalidIdCode)) =>
        IF HasLongId(last_output)
        THEN result.kind = "raise" /\ result.exc = "ValueError"
        ELSE DescriptorsReturned(last_output, command_dict, UnknownCommand)
  /\ (Answered /\ handler = "get_property_desc"
       /\ last_output # SentinelText("get_property_desc", InvalidIdCode)) =>
        IF HasLongId(last_output)
        THEN result.kind = "raise" /\ result.exc = "ValueError"
        ELSE DescriptorsReturned(last_output, property_dict, UnknownProperty)

\* a known id, then an id that the command table does not hold
C8_Witness ==
  /\ Answered
  /\ handler = "get_command_desc"
  /\ last_output = <<"1","2","8","0","1","\r","\n","1","6","6","4","3","\r","\n">>
  /\ result = Return(<<command_dict[12801], UnknownCommand>>)

(***************************************************************************)
(* C9.  Service callbacks: whenever the driver function a callback calls   *)
(* fails, with any exception, the callback returns a response with         *)
(* success = False and no exception leaves the callback.  In the code      *)
(* get_device_count_callback has no try block, and the four callbacks that *)
(* name InvalidIdException in their except clause raise NameError.         *)
(***************************************************************************)
\* the call a callback makes to the driver, for the request it was given
driver_call(h, request, outs) ==
  CASE h = "get_device_count_callback" -> get_device_count(outs)
    [] h = "get_device_info_callback" -> get_device_info(request.id, outs)
    [] h = "get_command_desc_callback" -> get_command_desc(request.id, outs)
    [] h = "get_property_desc_callback" -> get_property_desc(request.id, outs)
    [] h = "get_property_data_callback" ->
         get_property_data(request.device_i, request.property_id, outs)
    [] h = "set_property_data_callback" ->
         set_property_data(request.device_i, request.property_id,
                           request.data, outs)
    [] h = "set_properties_data_callback" ->
         set_properties_data(request.device_i, request.properties,
                             request.data, outs)
    [] h = "send_command_callback" ->
         send_command(request.device_i, request.command, outs)
    [] h = "turntable_degree_callback" ->
         get_property_data(request.device_i, PyInt(16643), outs)

\* C9: a failure of the driver call yields a response with success = FALSE
C9_CallbacksFlattenFailures ==
  (/\ pc = "done"
   /\ handler \in Callbacks \ {"turntable_callback"}
   /\ driver_call(handler, args[1], returned).res.kind = "raise")
  => /\ result.kind = "return"
     /\ result.val.success = FALSE

(***************************************************************************)
(* C10.  As claimed: for every driver function, an output that is neither  *)
(* one of the function's sentinels nor exactly of its success shape makes  *)
(* the call raise UnexpectedOutputException; no value is returned for an   *)
(* output that is unrecognised or matches only in part.                    *)
(***************************************************************************)
\* the sentinel texts the specification gives each driver function
Sentinels(f) ==
  CASE f = "get_device_count" -> {}
    [] f \in {"get_device_info", "get_command_desc", "get_property_desc",
              "turntable"} -> {SentinelText(f, InvalidIdCode)}
    [] OTHER -> {SentinelText(f, InvalidIdCode), SentinelText(f, UnsupportedCode),
                 SentinelText(f, NotSupportedByDeviceCode)}

\* the text is zero or more lines of decimal digits, each ended by CRLF
DigitLines(s) ==
  /\ Len(s) > 0 => s[Len(s)] = "\n"
  /\ \A i \in 1..Len(s) :
       \/ IsDigit(s[i])
       \/ s[i] = "\r" /\ i > 1 /\ IsDigit(s[i - 1]) /\ i < Len(s) /\ s[i + 1] = "\n"
       \/ s[i] = "\n" /\ i > 2 /\ s[i - 1] = "\r" /\ IsDigit(s[i - 2])

\* 'Product Name : <text>\r\nDevice ID : <digits>\r\n' and nothing else
DeviceInfoText(s) ==
  \E n \in 1..Len(s), d \in 1..Len(s) :
    LET text == SubSeq(s, Len(ProductNameLabel) + 1, Len(ProductNameLabel) + n)
        from == Len(ProductNameLabel) + n + Len(DeviceIdLabel)
        digits == SubSeq(s, from + 1, from + d)
    IN /\ from + d + 2 = Len(s)
       /\ AllNameChars(text)
       /\ AllDigits(digits)
       /\ s = ProductNameLabel \o text \o DeviceIdLabel \o digits \o CRLF

\* the success shapes of the text output contract: a line of digits for a
\* count or a value (the value also without its CRLF), the two fields of a
\* device, lines of digits for the descriptors; for a set, send or rotate
\* call, which returns no data, no text or lines of digits
SuccessShape(f, s) ==
  CASE f = "get_device_count" -> DigitLines(s) /\ Len(IdTextsOf(s)) = 1
    [] f = "get_device_info" -> DeviceInfoText(s)
    [] f \in {"get_command_desc", "get_property_desc"} -> DigitLines(s)
    [] f = "get_property_data" ->
         AllDigits(s) \/ (DigitLines(s) /\ Len(IdTextsOf(s)) = 1)
    [] OTHER -> DigitLines(s)

\* C10 as claimed: an output that is neither a sentinel nor of the success
\* shape raises UnexpectedOutputException
C10_NoPartialParsing ==
  (/\ Answered
   /\ handler \in DriverFunctions
   /\ last_output \notin Sentinels(handler)
   /\ ~SuccessShape(handler, last_output))
  => /\ result.kind = "raise"
     /\ result.exc = "UnexpectedOutputException"

(***************************************************************************)
(* C10, amended.  For an output that is not one of the function's          *)
(* sentinels: get_device_count and get_device_info raise                   *)
(* UnexpectedOutputException unless the output is of their success shape;  *)
(* get_property_data raises UnexpectedOutputException exactly when the     *)
(* output does not begin with a decimal digit, and otherwise returns the   *)
(* integer of the leading run of digits, whatever follows it;              *)
(* get_command_desc and get_property_desc return a list, and               *)
(* set_property_data, set_properties_data, send_command and turntable      *)
(* return True, for every such output.  Where a run of more than           *)
(* int_max_str_digits digits is to be converted, the call raises           *)
(* ValueError instead.                                                     *)
(***************************************************************************)
\* the longest prefix of s made of decimal digits
LeadingDigits(s) ==
  LET k == CHOOSE k \in 0..Len(s) :
             /\ k < Len(s) => ~IsDigit(s[k + 1])
             /\ \A i \in 1..k : IsDigit(s[i])
  IN SubSeq(s, 1, k)

\* C10 amended: what each function does with an output that is no sentinel
C10_ParseFailureOnlyWhereParsed ==
  (/\ Answered
   /\ handler \in DriverFunctions
   /\ last_output \notin Sentinels(handler))
  => CASE handler \in {"get_device_count", "get_device_info"} ->
            ~SuccessShape(handler, last_output) =>
              result.kind = "raise" /\ result.exc = "UnexpectedOutputException"
       [] handler = "get_property_data" ->
            LET digits == LeadingDigits(last_output)
            IN IF digits = <<>>
               THEN /\ result.kind = "raise"
                    /\ result.exc = "UnexpectedOutputException"
               ELSE IF Len(digits) > int_max_str_digits
               THEN result.kind = "raise" /\ result.exc = "ValueError"
               ELSE result = Return(DecimalValue(digits))
       [] handler \in {"get_command_desc", "get_property_desc"} ->
            IF HasLongId(last_output)
            THEN result.kind = "raise" /\ result.exc = "ValueError"
            ELSE /\ result.kind = "return"
                 /\ Len(result.val) = Len(IdTextsOf(last_output))
       [] OTHER -> result = Return(TRUE)

\* digits followed by trailing text: the value of the digits is returned
C10_Witness ==
  /\ Answered
  /\ handler = "get_property_data"
  /\ last_output = <<"4","2","a">>
  /\ result = Return(42)

(***************************************************************************)
(* C11.  Invocations of rwo per call.  A call of any function other than   *)
(* get_property_data passes at most one command to rwo, whatever rwo       *)
(* returns.  get_property_data (and the two callbacks that call it)        *)
(* invokes rwo again only in the step in which rwo has returned the empty  *)
(* text, and then exactly once more; when rwo returns a text that is not   *)
(* empty (a sentinel, a text that does not match, or a value), or raises,  *)
(* the call ends in that step with no further invocation.                  *)
(***************************************************************************)
\* the handlers whose code reaches the while loop of get_property_data
PollingHandlers ==
  {"get_property_data", "get_property_data_callback", "turntable_degree_callback"}

\* C11: only get_property_data invokes rwo more than once in a call, and it
\* invokes rwo again only immediately after an empty output
C11_NoRetryExceptEmptyPolling ==
  [][/\ handler' \notin PollingHandlers => Len(sent') <= 1
     /\ pc = "idle" => Len(sent') <= 1
     /\ pc = "rwo" =>
          LET r == returned'[Len(returned')]
          IN /\ Len(returned') = Len(returned) + 1
             /\ Len(sent') > Len(sent) =>
                  /\ handler \in PollingHandlers
                  /\ r = Return(<<>>)
                  /\ Len(sent') = Len(sent) + 1
                  /\ pc' = "rwo"
             /\ r # Return(<<>>) => pc' = "done" /\ sent' = sent
     /\ pc = "done" => sent' = <<>>
    ]_vars

\* rwo returned '' and then a text that does not match: two invocations, and
\* the call has ended with UnexpectedOutputException
C11_Witness ==
  /\ handler = "get_property_data"
  /\ pc = "done"
  /\ returned = <<Return(<<>>), Return(<<"a">>)>>
  /\ Len(sent) = 2
  /\ result.kind = "raise"
  /\ result.exc = "UnexpectedOutputException"
====
